---- MODULE Spec2Model ----
(***************************************************************************)
(* Model of the marketing data server (src/server.js): an Express          *)
(* application whose handlers read three JSON documents from disk on every *)
(* request and answer with a status code and a JSON body.                  *)
(*                                                                         *)
(* Strings that the code inspects character by character (query values    *)
(* given to parseInt, passwords given to simpleDecrypt) are sequences of   *)
(* one-character strings; strings that are only compared (names, regions,  *)
(* roles, messages) are TLA+ strings.  A JavaScript object is a function   *)
(* whose DOMAIN holds the properties it defines: a property that is not in *)
(* the DOMAIN is undefined.                                                *)
(***************************************************************************)
EXTENDS Integers, Sequences, FiniteSets, TLC

VARIABLES
    files,   \* the three backing documents on disk, by name
    req,     \* the request the server handled last
    resp     \* the responses sent for that request, in order

vars == <<files, req, resp>>

(***************************************************************************)
(* Bounds of the model.                                                    *)
(***************************************************************************)
MaxLen == 3        \* longest campaignId query string
MaxCampaigns == 2  \* most campaigns in a campaigns document
MaxIds == 2        \* longest creativeIds array
MaxUsers == 2      \* most users in a users document
MaxPwLen == 2      \* longest supplied password

(***************************************************************************)
(* Bounded sequences.                                                      *)
(***************************************************************************)
SeqsUpTo(S, n) == UNION {[1..k -> S] : k \in 0..n}

(***************************************************************************)
(* Decimal digits, Number.prototype.toString and parseInt(x, 10).          *)
(***************************************************************************)
Digits10 == <<"0", "1", "2", "3", "4", "5", "6", "7", "8", "9">>

DigitSet == {Digits10[i] : i \in 1..10}

DigitVal(c) == CHOOSE d \in 0..9 : Digits10[d + 1] = c

RECURSIVE NatToStr(_)
NatToStr(n) ==
    IF n < 10 THEN <<Digits10[n + 1]>>
    ELSE NatToStr(n \div 10) \o <<Digits10[(n % 10) + 1]>>

\* id.toString(): the decimal representation of an integer
IntToStr(n) == IF n < 0 THEN <<"-">> \o NatToStr(-n) ELSE NatToStr(n)

IsWhite(c) == c = " "

RECURSIVE TrimStart(_)
TrimStart(s) ==
    IF s # <<>> /\ IsWhite(Head(s)) THEN TrimStart(Tail(s)) ELSE s

RECURSIVE DigitPrefix(_)
DigitPrefix(s) ==
    IF s # <<>> /\ Head(s) \in DigitSet
    THEN <<Head(s)>> \o DigitPrefix(Tail(s))
    ELSE <<>>

RECURSIVE DigitsValue(_)
DigitsValue(d) ==
    IF d = <<>> THEN 0
    ELSE DigitsValue(SubSeq(d, 1, Len(d) - 1)) * 10 + DigitVal(d[Len(d)])

NaN == [nan |-> TRUE, n |-> 0]

Num(n) == [nan |-> FALSE, n |-> n]

\* parseInt(s, 10) of a string: leading white space is skipped, one sign is
\* read, then the longest run of digits; whatever follows is ignored; NaN
\* when there is no digit to read.
parseInt(s) ==
    LET t == TrimStart(s)
        signed == t # <<>> /\ Head(t) \in {"-", "+"}
        neg == t # <<>> /\ Head(t) = "-"
        d == DigitPrefix(IF signed THEN Tail(t) ELSE t)
    IN  IF d = <<>> THEN NaN
        ELSE Num(IF neg THEN -DigitsValue(d) ELSE DigitsValue(d))

isNaN(x) == x.nan

(***************************************************************************)
(* Objects, query strings and truthiness.                                  *)
(***************************************************************************)
Has(obj, k) == k \in DOMAIN obj

\* !value for a string-valued property: undefined and "" are falsy
FalsyStr(obj, k) == ~Has(obj, k) \/ obj[k] = <<>>

\* !value for a property holding a TLA+ string
FalsyName(obj, k) == ~Has(obj, k) \/ obj[k] = ""

(***************************************************************************)
(* Files and JSON.parse(fs.readFileSync(...)).                             *)
(* A file is there or not, and what it holds parses as JSON or does not; a  *)
(* parsed document is an object that may or may not define its collection. *)
(***************************************************************************)
Missing == [exists |-> FALSE, parses |-> FALSE, doc |-> [nothing |-> 0]]

Malformed == [exists |-> TRUE, parses |-> FALSE, doc |-> [nothing |-> 0]]

NoCollection == [exists |-> TRUE, parses |-> TRUE, doc |-> [nothing |-> 0]]

CampaignsFile(cs) ==
    [exists |-> TRUE, parses |-> TRUE, doc |-> [campaigns |-> cs]]

UsersFile(us) == [exists |-> TRUE, parses |-> TRUE, doc |-> [users |-> us]]

(***************************************************************************)
(* Documents: what the three files can hold.                               *)
(***************************************************************************)
FileNames == {"campaigns", "users", "encryptedUsers"}

\* the properties of a regional_performance entry that a row copies
RegionalFields ==
    {"region", "country", "impressions", "clicks", "conversions", "spend",
     "revenue", "ctr", "conversion_rate", "cpc", "cpa", "roas"}

UserNames == {"ahmed_hassan", "omar_mahmoud"}

Campaign(id) ==
    [id |-> id, name |-> "Campaign", status |-> "Active", medium |-> "Social"]

\* a regional_performance entry with every property of the data model
RegionalPerformance(region) ==
    [k \in RegionalFields |->
        IF k = "region" THEN region
        ELSE IF k = "country" THEN "UAE"
        ELSE 0]

\* an entry that leaves out `country`
PartialPerformance(region) ==
    [k \in RegionalFields \ {"country"} |-> IF k = "region" THEN region ELSE 0]

Creative(id) ==
    [id |-> id, name |-> "Creative", format |-> "Image", url |-> "u",
     performance_score |-> 0, is_primary |-> TRUE, impressions |-> 0,
     clicks |-> 0, ctr |-> 0]

WithField(obj, k, v) == [f \in DOMAIN obj \cup {k} |-> IF f = k THEN v ELSE obj[f]]

User(username, password, role) ==
    [id |-> IF username = "ahmed_hassan" THEN 1 ELSE 2,
     username |-> username, email |-> "mail", role |-> role,
     password |-> password]

\* campaigns documents that differ in the ids of their campaigns
CampaignIds == {-1, 0, 10}

IdDocuments ==
    {Missing, Malformed}
    \cup {CampaignsFile(cs) :
            cs \in SeqsUpTo({Campaign(i) : i \in CampaignIds}, MaxCampaigns)}

\* campaigns documents that differ in their regional performance
RegionalEntries ==
    {RegionalPerformance("Dubai"), RegionalPerformance("dubai"),
     PartialPerformance("Dubai")}

RegionalCollections ==
    {<<>>} \cup {<<e>> : e \in RegionalEntries}
    \cup {<<RegionalPerformance("dubai"), e>> : e \in RegionalEntries}

RegionalCampaigns ==
    {Campaign(i) : i \in {1, 2}}
    \cup {WithField(Campaign(i), "regional_performance", rps) :
            i \in {1, 2}, rps \in RegionalCollections}

RegionDocuments ==
    {CampaignsFile(cs) : cs \in SeqsUpTo(RegionalCampaigns, MaxCampaigns)}

\* campaigns documents that differ in their creatives; a creative's id is
\* unique in the whole document
CreativeCollections ==
    {<<>>, <<Creative(1)>>, <<Creative(10)>>, <<Creative(1), Creative(10)>>,
     <<Creative(10), Creative(1)>>, <<Creative(11)>>}

CreativeCampaigns ==
    {Campaign(1)}
    \cup {WithField(Campaign(i), "creatives", c) :
            i \in {1, 2}, c \in CreativeCollections}

CreativeIdsOf(cs) ==
    UNION {IF Has(cs[i], "creatives")
           THEN {<<i, j>> : j \in 1..Len(cs[i].creatives)}
           ELSE {} : i \in 1..Len(cs)}

UniqueCreativeIds(cs) ==
    \A p, q \in CreativeIdsOf(cs) :
        cs[p[1]].creatives[p[2]].id = cs[q[1]].creatives[q[2]].id => p = q

CreativeDocuments ==
    {CampaignsFile(cs) :
        cs \in {c \in SeqsUpTo(CreativeCampaigns, MaxCampaigns) :
                  UniqueCreativeIds(c)}}

\* users documents
StoredPasswords == {<<"h">>, <<"a", "h">>}

Roles == {"admin", "user", "Admin"}

Users ==
    {User(u, p, r) : u \in UserNames, p \in StoredPasswords, r \in Roles}

UsersDocuments ==
    {Missing, Malformed, NoCollection}
    \cup {UsersFile(us) : us \in SeqsUpTo(Users, MaxUsers)}

\* the documents the server is deployed with
DeployedCampaigns ==
    CampaignsFile(
        <<WithField(WithField(Campaign(1), "regional_performance",
                              <<RegionalPerformance("Dubai")>>),
                    "creatives", <<Creative(1), Creative(10)>>),
          WithField(Campaign(10), "creatives", <<Creative(11)>>)>>)

DeployedUsers ==
    UsersFile(<<User("ahmed_hassan", <<"a", "h">>, "admin"),
                User("omar_mahmoud", <<"h">>, "user")>>)

DeployedEncryptedUsers ==
    UsersFile(<<User("ahmed_hassan", <<"h", "o">>, "admin"),
                User("omar_mahmoud", <<"o">>, "user")>>)

DeployedFiles ==
    [campaigns |-> DeployedCampaigns, users |-> DeployedUsers,
     encryptedUsers |-> DeployedEncryptedUsers]

(***************************************************************************)
(* Reading a file.                                                         *)
(***************************************************************************)
\* a server that loaded the files once when it started and answered from
\* that copy
readFileSync_Cached(name) == DeployedFiles[name]

\* fs.readFileSync(path, 'utf8'): the contents of the file now
readFileSync(name) == files[name]

\* JSON.parse(fs.readFileSync(...)): readFileSync throws on a missing file
\* and JSON.parse on a text that is no JSON
JSONparse(file) == [threw |-> ~file.parses, value |-> file.doc]

(***************************************************************************)
(* Responses.  A handler's run is the sequence of responses it sent and    *)
(* whether it ended by throwing.                                           *)
(***************************************************************************)
Response(status, body) == [status |-> status, body |-> body]

Sent(status, body) == [sent |-> <<Response(status, body)>>, threw |-> FALSE]

Threw == [sent |-> <<>>, threw |-> TRUE]

\* Express's default error handler: a handler without a try/catch that
\* throws before sending is answered with 500 by the framework.
UnhandledError == Response(500, [unhandled |-> TRUE])

expressDefault(run) ==
    IF run.threw /\ run.sent = <<>> THEN <<UnhandledError>> ELSE run.sent

(***************************************************************************)
(* GET /campaign-data                                                      *)
(***************************************************************************)
\* a scan that stops one element early
RECURSIVE FindCampaignFrom_SkipsLast(_, _, _)
FindCampaignFrom_SkipsLast(cs, n, i) ==
    IF i >= Len(cs) THEN 0
    ELSE IF cs[i].id = n THEN i
    ELSE FindCampaignFrom_SkipsLast(cs, n, i + 1)

\* data.campaigns.find(c => c.id === numericCampaignId): index of the first
\* match, 0 when there is none
RECURSIVE FindCampaignFrom(_, _, _)
FindCampaignFrom(cs, n, i) ==
    IF i > Len(cs) THEN 0
    ELSE IF cs[i].id = n THEN i
    ELSE FindCampaignFrom(cs, n, i + 1)

campaignData(query) ==
    IF FalsyStr(query, "campaignId")
    THEN Sent(400, [error |-> "Missing campaign ID",
                    message |-> "campaignId query parameter is required"])
    ELSE
    LET numericCampaignId == parseInt(query.campaignId)
    IN  IF isNaN(numericCampaignId)
        THEN Sent(400, [error |-> "Invalid campaign ID",
                        message |-> "campaignId must be a valid number"])
        ELSE
        LET data == JSONparse(readFileSync("campaigns"))
        IN  IF data.threw \/ ~Has(data.value, "campaigns") THEN Threw
            ELSE
            LET i == FindCampaignFrom(data.value.campaigns,
                                      numericCampaignId.n, 1)
            IN  IF i = 0
                THEN Sent(404, [error |-> "Campaign not found",
                                message |-> "No campaign found with the provided ID"])
                ELSE Sent(200, data.value.campaigns[i])

(***************************************************************************)
(* GET /region-data                                                        *)
(***************************************************************************)
\* rp => rp.region = region: an assignment, truthy for every entry
FindRegionFrom_Assigns(rps, region, i) == IF i > Len(rps) THEN 0 ELSE i

\* campaign.regional_performance.find(rp => rp.region === region)
RECURSIVE FindRegionFrom(_, _, _)
FindRegionFrom(rps, region, i) ==
    IF i > Len(rps) THEN 0
    ELSE IF Has(rps[i], "region") /\ rps[i].region = region THEN i
    ELSE FindRegionFrom(rps, region, i + 1)

\* a row whose literal leaves out `roas`
regionRow_WithoutRoas(campaign, regionPerformance) ==
    [k \in {"campaign"}
           \cup ({"name"} \cap DOMAIN campaign)
           \cup ((RegionalFields \ {"roas"}) \cap DOMAIN regionPerformance) |->
        IF k = "campaign" THEN IntToStr(campaign.id)
        ELSE IF k = "name" THEN campaign.name
        ELSE regionPerformance[k]]

\* The object literal pushed for a match, as res.json serialises it:
\* JSON.stringify leaves out a property whose value is undefined, so the row
\* holds `campaign`, `name` when the campaign defines it, and every
\* regional field the entry defines.
regionRow(campaign, regionPerformance) ==
    [k \in {"campaign"}
           \cup ({"name"} \cap DOMAIN campaign)
           \cup (RegionalFields \cap DOMAIN regionPerformance) |->
        IF k = "campaign" THEN IntToStr(campaign.id)
        ELSE IF k = "name" THEN campaign.name
        ELSE regionPerformance[k]]

\* data.campaigns.forEach(...): the rows pushed for campaigns i..Len(cs)
RECURSIVE regionalDataFrom(_, _, _)
regionalDataFrom(cs, region, i) ==
    IF i > Len(cs) THEN <<>>
    ELSE
    LET campaign == cs[i]
        j == IF Has(campaign, "regional_performance")
             THEN FindRegionFrom(campaign.regional_performance, region, 1)
             ELSE 0
        rest == regionalDataFrom(cs, region, i + 1)
    IN  IF j = 0 THEN rest
        ELSE <<regionRow(campaign, campaign.regional_performance[j])>> \o rest

regionData(query) ==
    IF FalsyName(query, "region")
    THEN Sent(400, [error |-> "Missing region",
                    message |-> "region query parameter is required"])
    ELSE
    LET data == JSONparse(readFileSync("campaigns"))
    IN  IF data.threw \/ ~Has(data.value, "campaigns") THEN Threw
        ELSE
        LET regionalData == regionalDataFrom(data.value.campaigns,
                                             query.region, 1)
        IN  IF Len(regionalData) = 0
            THEN Sent(404, [error |-> "No campaigns found",
                            message |-> <<"No campaigns found for region: ",
                                          query.region>>])
            ELSE Sent(200, regionalData)

(***************************************************************************)
(* POST /creative-data                                                     *)
(***************************************************************************)
\* An element of the creativeIds array: a JSON number, a JSON string or
\* null.  parseInt first converts its argument to a string.
NumberId(n) == [type |-> "number", n |-> n, s |-> <<>>]

StringId(s) == [type |-> "string", n |-> 0, s |-> s]

NullId == [type |-> "null", n |-> 0, s |-> <<>>]

idToString(id) ==
    IF id.type = "number" THEN IntToStr(id.n)
    ELSE IF id.type = "string" THEN id.s
    ELSE <<"n", "u", "l", "l">>

\* creativeIds.map(id => parseInt(id, 10), null for NaN).filter(id !== null)
RECURSIVE numericIdsFrom(_, _)
numericIdsFrom(creativeIds, i) ==
    IF i > Len(creativeIds) THEN <<>>
    ELSE
    LET numericId == parseInt(idToString(creativeIds[i]))
        rest == numericIdsFrom(creativeIds, i + 1)
    IN  IF isNaN(numericId) THEN rest ELSE <<numericId.n>> \o rest

\* numericCreativeIds.includes(creative.id)
includes(ids, x) == \E i \in 1..Len(ids) : ids[i] = x

\* an optional string property, or null
Nullable(obj, k) ==
    IF Has(obj, k) /\ obj[k] # "" THEN [null |-> FALSE, s |-> obj[k]]
    ELSE [null |-> TRUE, s |-> ""]

\* the properties of the campaign and of the creative that a row copies
CampaignToRow ==
    [campaign_id |-> "id", campaign_name |-> "name",
     campaign_status |-> "status", campaign_medium |-> "medium"]

CreativeToRow ==
    [creative_id |-> "id", creative_name |-> "name",
     creative_format |-> "format", creative_url |-> "url",
     performance_score |-> "performance_score", is_primary |-> "is_primary",
     impressions |-> "impressions", clicks |-> "clicks", ctr |-> "ctr"]

\* The object literal pushed for a requested creative, as res.json
\* serialises it: undefined properties are left out, a_b_test_variant is
\* always there (null when the creative has none).
creativeRow(campaign, creative) ==
    [k \in {"a_b_test_variant"}
           \cup {f \in DOMAIN CampaignToRow : Has(campaign, CampaignToRow[f])}
           \cup {f \in DOMAIN CreativeToRow : Has(creative, CreativeToRow[f])} |->
        IF k = "a_b_test_variant" THEN Nullable(creative, "a_b_test_variant")
        ELSE IF k \in DOMAIN CampaignToRow THEN campaign[CampaignToRow[k]]
        ELSE creative[CreativeToRow[k]]]

\* campaign.creatives.forEach(...): rows of creatives j..Len(creatives)
RECURSIVE creativeRowsFrom(_, _, _)
creativeRowsFrom(campaign, ids, j) ==
    IF j > Len(campaign.creatives) THEN <<>>
    ELSE
    LET creative == campaign.creatives[j]
        rest == creativeRowsFrom(campaign, ids, j + 1)
    IN  IF includes(ids, creative.id)
        THEN <<creativeRow(campaign, creative)>> \o rest
        ELSE rest

\* data.campaigns.forEach(...): rows of campaigns i..Len(cs)
RECURSIVE creativePerformanceDataFrom(_, _, _)
creativePerformanceDataFrom(cs, ids, i) ==
    IF i > Len(cs) THEN <<>>
    ELSE (IF Has(cs[i], "creatives")
          THEN creativeRowsFrom(cs[i], ids, 1)
          ELSE <<>>)
         \o creativePerformanceDataFrom(cs, ids, i + 1)

\* The request body: creativeIds is absent, a value that is no array, or an
\* array of ids.
NoBody == [kind |-> "absent", creativeIds |-> <<>>]

ScalarBody == [kind |-> "scalar", creativeIds |-> <<>>]

ArrayBody(ids) == [kind |-> "array", creativeIds |-> ids]

creativeData(body) ==
    IF body.kind # "array"
    THEN Sent(400, [error |-> "Missing or invalid creative IDs",
                    message |-> "creativeIds must be provided as an array in the request body",
                    example |-> "{ creativeIds: [101, 102, 201] }"])
    ELSE IF Len(body.creativeIds) = 0
    THEN Sent(400, [error |-> "Empty creative IDs array",
                    message |-> "Please provide at least one creative ID"])
    ELSE
    LET numericCreativeIds == numericIdsFrom(body.creativeIds, 1)
    IN  IF Len(numericCreativeIds) = 0
        THEN Sent(400, [error |-> "Invalid creative IDs",
                        message |-> "All creative IDs must be valid numbers"])
        ELSE
        LET data == JSONparse(readFileSync("campaigns"))
        IN  IF data.threw \/ ~Has(data.value, "campaigns") THEN Threw
            ELSE
            LET creativePerformanceData ==
                    creativePerformanceDataFrom(data.value.campaigns,
                                                numericCreativeIds, 1)
            IN  IF Len(creativePerformanceData) = 0
                THEN Sent(404, [error |-> "No creatives found",
                                message |-> <<"No creatives found for the provided IDs: ",
                                              body.creativeIds>>])
                ELSE Sent(200,
                          [message |-> "Creative performance data retrieved successfully",
                           requested_ids |-> body.creativeIds,
                           found_creatives |-> Len(creativePerformanceData),
                           data |-> creativePerformanceData])

(***************************************************************************)
(* GET / and GET /full-data                                                *)
(***************************************************************************)
hello == Sent(200, "Hello World!")

\* res.sendFile: the contents of the file as they are, JSON or not; for a
\* missing file the framework answers 404
fullData ==
    LET file == readFileSync("campaigns")
    IN  IF file.exists THEN Sent(200, file.doc)
        ELSE Sent(404, [unhandled |-> TRUE])

(***************************************************************************)
(* The obfuscation codec of ./auth/decrypt.js: every letter is moved back  *)
(* by a fixed number of places of the alphabet, every other character is   *)
(* kept (ahmedadmin123 is stored as hotlkhktpu123).                        *)
(***************************************************************************)
Letters ==
    <<"a", "b", "c", "d", "e", "f", "g", "h", "i", "j", "k", "l", "m",
      "n", "o", "p", "q", "r", "s", "t", "u", "v", "w", "x", "y", "z">>

Shift == 7

decryptChar(c) ==
    IF \E i \in 1..26 : Letters[i] = c
    THEN LET i == CHOOSE k \in 1..26 : Letters[k] = c
         IN  Letters[((i - 1 + 26 - Shift) % 26) + 1]
    ELSE c

\* a codec is a table from characters to characters, applied to every
\* character of a text
applyCodec(codec, text) == [i \in 1..Len(text) |-> codec[text[i]]]

CodecChars == {Letters[i] : i \in 1..26} \cup DigitSet

simpleDecryptCodec == [c \in CodecChars |-> decryptChar(c)]

simpleDecrypt(text) == applyCodec(simpleDecryptCodec, text)

(***************************************************************************)
(* GET /simple-protected-data and GET /encrypted-protected-data            *)
(***************************************************************************)
\* users.find(u => u.username === username)
RECURSIVE FindUserFrom(_, _, _)
FindUserFrom(us, username, i) ==
    IF i > Len(us) THEN 0
    ELSE IF Has(us[i], "username") /\ us[i].username = username THEN i
    ELSE FindUserFrom(us, username, i + 1)

\* { id, username, email, role } of the user, as serialised
userSummary(user) ==
    [k \in {"id", "username", "email", "role"} \cap DOMAIN user |-> user[k]]

GenericError ==
    [error |-> "Internal server error",
     message |-> "An error occurred while processing your request"]

\* a handler without the try/catch: the failure goes to the framework
tryCatch_Missing(run) == run

\* } catch (error) { console.error(...); res.status(500).json(...) }
tryCatch(run) ==
    IF run.threw
    THEN [sent |-> Append(run.sent, Response(500, GenericError)),
          threw |-> FALSE]
    ELSE run

\* a role test that grants whatever is not 'user'
roleBranch_NotUser(user) ==
    IF Has(user, "role") /\ user.role = "user"
    THEN Sent(403, [error |-> "Access denied",
                    message |-> "User must be an admin to access this data.",
                    user |-> userSummary(user)])
    ELSE LET marketingData == JSONparse(readFileSync("campaigns"))
         IN  IF marketingData.threw THEN Threw
             ELSE Sent(200, [message |-> "Access granted - Admin user authenticated",
                             user |-> userSummary(user),
                             data |-> marketingData.value])

\* if (user.role === 'admin') ... else if (user.role === 'user') ... else
roleBranch(user) ==
    IF Has(user, "role") /\ user.role = "admin"
    THEN LET marketingData == JSONparse(readFileSync("campaigns"))
         IN  IF marketingData.threw THEN Threw
             ELSE Sent(200, [message |-> "Access granted - Admin user authenticated",
                             user |-> userSummary(user),
                             data |-> marketingData.value])
    ELSE IF Has(user, "role") /\ user.role = "user"
    THEN Sent(403, [error |-> "Access denied",
                    message |-> "User must be an admin to access this data.",
                    user |-> userSummary(user)])
    ELSE Sent(403, [error |-> "Access denied", message |-> "User not found"])

MissingCredentials(example) ==
    Sent(400, [error |-> "Missing credentials",
               message |-> "Username and password query parameters are required",
               example |-> example])

UserNotFound ==
    Sent(404, [error |-> "User not found", message |-> "User not found"])

InvalidCredentials ==
    Sent(401, [error |-> "Invalid credentials", message |-> "User not found"])

\* a test that accepts any prefix of the stored password
simplePasswordDiffers_Prefix(user, password) ==
    \/ ~Has(user, "password")
    \/ Len(password) > Len(user.password)
    \/ SubSeq(user.password, 1, Len(password)) # password

\* user.password !== password
simplePasswordDiffers(user, password) ==
    ~Has(user, "password") \/ user.password # password

simpleProtectedData(query) ==
    tryCatch(
        IF FalsyName(query, "username") \/ FalsyStr(query, "password")
        THEN MissingCredentials(
                 "/simple-protected-data?username=ahmed_hassan&password=ahmedadmin123")
        ELSE
        LET usersData == JSONparse(readFileSync("users"))
        IN  IF usersData.threw \/ ~Has(usersData.value, "users") THEN Threw
            ELSE
            LET i == FindUserFrom(usersData.value.users, query.username, 1)
            IN  IF i = 0 THEN UserNotFound
                ELSE
                LET user == usersData.value.users[i]
                IN  IF simplePasswordDiffers(user, query.password)
                    THEN InvalidCredentials
                    ELSE roleBranch(user))

\* a test that decodes the stored password and not the supplied one
decryptedPasswordDiffers_RawSupplied(codec, user, password) ==
    applyCodec(codec, user.password) # password

\* decryptedStoredPassword !== decryptedProvidedPassword, with `codec` as
\* the table of simpleDecrypt
decryptedPasswordDiffers(codec, user, password) ==
    LET decryptedStoredPassword == applyCodec(codec, user.password)
        decryptedProvidedPassword == applyCodec(codec, password)
    IN  decryptedStoredPassword # decryptedProvidedPassword

\* the handler of /encrypted-protected-data, with `codec` as the table of
\* simpleDecrypt
encryptedProtectedDataWith(codec, query) ==
    tryCatch(
        IF FalsyName(query, "username") \/ FalsyStr(query, "password")
        THEN MissingCredentials(
                 "/protected-data?username=ahmed_hassan&password=hotlkhktpu123")
        ELSE
        LET encryptedUsersData == JSONparse(readFileSync("encryptedUsers"))
        IN  IF encryptedUsersData.threw
               \/ ~Has(encryptedUsersData.value, "users") THEN Threw
            ELSE
            LET i == FindUserFrom(encryptedUsersData.value.users,
                                  query.username, 1)
            IN  IF i = 0 THEN UserNotFound
                ELSE
                LET user == encryptedUsersData.value.users[i]
                IN  IF decryptedPasswordDiffers(codec, user, query.password)
                    THEN InvalidCredentials
                    ELSE roleBranch(user))

encryptedProtectedData(query) ==
    encryptedProtectedDataWith(simpleDecryptCodec, query)

(***************************************************************************)
(* Requests: what a client can send to each route.                         *)
(***************************************************************************)
\* a query string (or body) that does not name the parameter
NoQuery == [other |-> <<>>]

QueryChars == {"0", "1", "-", "+", " ", "a"}

CampaignQueries ==
    {NoQuery} \cup {[campaignId |-> s] : s \in SeqsUpTo(QueryChars, MaxLen)}

Regions == {"Dubai", "dubai", "Doha"}

RegionQueries == {NoQuery} \cup {[region |-> r] : r \in Regions \cup {""}}

RequestedIds ==
    {NumberId(1), NumberId(7), StringId(<<"1", "0">>), StringId(<<"1", "a">>),
     StringId(<<"a">>), NullId}

CreativeBodies ==
    {NoBody, ScalarBody}
    \cup {ArrayBody(ids) : ids \in SeqsUpTo(RequestedIds, MaxIds)}

PasswordChars == {"a", "h"}

CredentialQueries ==
    {NoQuery}
    \cup {[username |-> u] : u \in UserNames}
    \cup {[username |-> u, password |-> p] :
             u \in UserNames \cup {"", "unknown_user"},
             p \in SeqsUpTo(PasswordChars, MaxPwLen)}

(***************************************************************************)
(* The server's operations: one action per route.  No handler writes a     *)
(* file; express answers a handler that throws outside a try/catch.  An    *)
(* exchange ends when its response has gone out.                           *)
(***************************************************************************)
NoRequest == [route |-> "none", input |-> NoQuery]

\* no exchange is open: handlers run to completion, one request at a time
Idle == req = NoRequest /\ resp = <<>>

Handle(route, input, run) ==
    /\ Idle
    /\ req' = [route |-> route, input |-> input]
    /\ resp' = expressDefault(run)
    /\ UNCHANGED files

Hello == Handle("GET /", NoQuery, hello)

FullData == Handle("GET /full-data", NoQuery, fullData)

CampaignData ==
    \E query \in CampaignQueries :
        Handle("GET /campaign-data", query, campaignData(query))

RegionData ==
    \E query \in RegionQueries :
        Handle("GET /region-data", query, regionData(query))

CreativeData ==
    \E body \in CreativeBodies :
        Handle("POST /creative-data", body, creativeData(body))

SimpleProtectedData ==
    \E query \in CredentialQueries :
        Handle("GET /simple-protected-data", query, simpleProtectedData(query))

EncryptedProtectedData ==
    \E query \in CredentialQueries :
        Handle("GET /encrypted-protected-data", query,
               encryptedProtectedData(query))

\* the response has gone out and the exchange is over
Finish ==
    /\ ~Idle
    /\ req' = NoRequest
    /\ resp' = <<>>
    /\ UNCHANGED files

(***************************************************************************)
(* The external writer.                                                    *)
(***************************************************************************)
\* what an external writer may leave in a file
Writable ==
    [campaigns |-> {DeployedCampaigns, Missing, Malformed,
                    CampaignsFile(<<WithField(Campaign(0), "regional_performance",
                                              <<RegionalPerformance("Doha")>>)>>)},
     users |-> {DeployedUsers, Malformed,
                UsersFile(<<User("omar_mahmoud", <<"h">>, "admin")>>)},
     encryptedUsers |-> {DeployedEncryptedUsers, NoCollection,
                         UsersFile(<<User("omar_mahmoud", <<"h">>, "Admin")>>)}]

\* An external writer replaces one file; the server takes no part in it.
\* The handlers read synchronously and run to completion, so a write falls
\* before or after an exchange, never inside one.
ExternalWrite ==
    /\ Idle
    /\ \E name \in FileNames :
          \E file \in Writable[name] :
              /\ files' = [files EXCEPT ![name] = file]
              /\ UNCHANGED <<req, resp>>

(***************************************************************************)
(* Specifications.                                                         *)
(***************************************************************************)
\* the deployed server, its seven routes and the external writer
Init == files = DeployedFiles /\ Idle

Next ==
    \/ Hello
    \/ FullData
    \/ CampaignData
    \/ RegionData
    \/ CreativeData
    \/ SimpleProtectedData
    \/ EncryptedProtectedData
    \/ Finish
    \/ ExternalWrite

Spec == Init /\ [][Next]_vars

\* GET /campaign-data over every campaigns document
InitCampaign ==
    /\ \E d \in IdDocuments : files = [DeployedFiles EXCEPT !.campaigns = d]
    /\ Idle

NextCampaign == CampaignData \/ Finish

SpecCampaign == InitCampaign /\ [][NextCampaign]_vars

\* GET /region-data over every campaigns document
InitRegion ==
    /\ \E d \in RegionDocuments : files = [DeployedFiles EXCEPT !.campaigns = d]
    /\ Idle

NextRegion == RegionData \/ Finish

SpecRegion == InitRegion /\ [][NextRegion]_vars

\* POST /creative-data over every campaigns document
InitCreative ==
    /\ \E d \in CreativeDocuments : files = [DeployedFiles EXCEPT !.campaigns = d]
    /\ Idle

NextCreative == CreativeData \/ Finish

SpecCreative == InitCreative /\ [][NextCreative]_vars

\* the two credential routes over every users document, the same document
\* in both files, and a campaigns file that parses or does not
InitAuth ==
    /\ \E d \in UsersDocuments :
        \E c \in {DeployedCampaigns, Malformed} :
            files = [campaigns |-> c, users |-> d, encryptedUsers |-> d]
    /\ Idle

NextAuth == SimpleProtectedData \/ EncryptedProtectedData \/ Finish

SpecAuth == InitAuth /\ [][NextAuth]_vars

(***************************************************************************)
(* Vocabulary of the properties.                                           *)
(***************************************************************************)
Answered(route) == req.route = route /\ Len(resp) >= 1

\* the campaigns of the campaigns document, when the file holds one
HasCampaigns == files.campaigns.parses /\ Has(files.campaigns.doc, "campaigns")

Campaigns == files.campaigns.doc.campaigns

\* s is the decimal representation of an integer: an optional sign and then
\* digits, nothing else
Unsigned(s) == IF s # <<>> /\ Head(s) \in {"-", "+"} THEN Tail(s) ELSE s

IsDecimal(s) ==
    /\ Unsigned(s) # <<>>
    /\ \A i \in 1..Len(Unsigned(s)) : Unsigned(s)[i] \in DigitSet

DecimalValue(s) ==
    IF s # <<>> /\ Head(s) = "-"
    THEN -DigitsValue(Unsigned(s))
    ELSE DigitsValue(Unsigned(s))

(***************************************************************************)
(* C2: GET /campaign-data with a campaignId that is the decimal            *)
(* representation of an integer n, over a campaigns document: when n is    *)
(* the id of a campaign of the document the response is 200 and its body   *)
(* is one campaign of the document whose id is n; when n is the id of no   *)
(* campaign the response is 404.  Exactly one response is sent.            *)
(***************************************************************************)
C2_CampaignById ==
    (/\ Answered("GET /campaign-data")
     /\ Has(req.input, "campaignId")
     /\ IsDecimal(req.input.campaignId)
     /\ HasCampaigns)
    => LET n == DecimalValue(req.input.campaignId)
       IN  /\ Len(resp) = 1
           /\ IF \E i \in 1..Len(Campaigns) : Campaigns[i].id = n
              THEN /\ resp[1].status = 200
                   /\ resp[1].body.id = n
                   /\ \E i \in 1..Len(Campaigns) : Campaigns[i] = resp[1].body
              ELSE resp[1].status = 404

\* C2, witness: the campaign asked for is the second of two, and it is what comes back
C2_Witness ==
    /\ Answered("GET /campaign-data")
    /\ Has(req.input, "campaignId")
    /\ req.input.campaignId = <<"1", "0">>
    /\ HasCampaigns
    /\ Len(Campaigns) = 2
    /\ Campaigns[1].id = -1
    /\ resp[1].status = 200
    /\ resp[1].body = Campaigns[2]

(***************************************************************************)
(* C3: GET /campaign-data with a campaignId that is not empty and is not   *)
(* the decimal representation of an integer is answered 400, whatever the  *)
(* campaigns document holds: it is never looked up, never 200, never 404.  *)
(***************************************************************************)
C3_NonNumericRejected ==
    (/\ Answered("GET /campaign-data")
     /\ Has(req.input, "campaignId")
     /\ req.input.campaignId # <<>>
     /\ ~IsDecimal(req.input.campaignId)
     /\ HasCampaigns)
    => resp[1].status = 400

\* an entry of creativeIds that is a number or the decimal representation
\* of an integer, and its value
IsNumericEntry(id) ==
    \/ id.type = "number"
    \/ id.type = "string" /\ IsDecimal(id.s)

EntryValue(id) == IF id.type = "number" THEN id.n ELSE DecimalValue(id.s)

CreativeIdsInDocument ==
    {Campaigns[p[1]].creatives[p[2]].id : p \in CreativeIdsOf(Campaigns)}

(***************************************************************************)
(* C4: POST /creative-data with a non-empty creativeIds array, over a      *)
(* campaigns document whose creative ids are unique: an entry is numeric   *)
(* when it is a number or the decimal representation of an integer; the    *)
(* request is answered 400 "Invalid creative IDs" if and only if no entry  *)
(* is numeric, and a 200 response's found_creatives is the length of its   *)
(* data and the number of distinct requested numeric ids that are the id   *)
(* of a creative of the document.                                          *)
(***************************************************************************)
C4_FoundCreatives ==
    (/\ Answered("POST /creative-data")
     /\ req.input.kind = "array"
     /\ Len(req.input.creativeIds) > 0
     /\ HasCampaigns)
    => LET ids == req.input.creativeIds
           numeric == {i \in 1..Len(ids) : IsNumericEntry(ids[i])}
           resolved == {EntryValue(ids[i]) : i \in numeric}
                       \cap CreativeIdsInDocument
       IN  /\ (resp[1].status = 400) <=> (numeric = {})
           /\ resp[1].status = 200 =>
                /\ resp[1].body.found_creatives = Len(resp[1].body.data)
                /\ resp[1].body.found_creatives = Cardinality(resolved)

\* the campaigns that have an entry for the region, in document order
HasRegion(campaign, region) ==
    /\ Has(campaign, "regional_performance")
    /\ \E j \in 1..Len(campaign.regional_performance) :
          /\ Has(campaign.regional_performance[j], "region")
          /\ campaign.regional_performance[j].region = region

CampaignsOfRegion(region) ==
    LET InRegion(c) == HasRegion(c, region)
    IN  SelectSeq(Campaigns, InRegion)

(***************************************************************************)
(* C5: GET /region-data with a non-empty region, over a campaigns          *)
(* document: the response is 404 when no campaign has a                    *)
(* regional_performance entry whose region is the requested string, and    *)
(* otherwise 200 with one row for each campaign that has such an entry, in *)
(* the order of the document; row i carries the id of the i-th such        *)
(* campaign and the requested region.  Campaigns without a                 *)
(* regional_performance collection give no row.                            *)
(***************************************************************************)
C5_RegionRows ==
    (/\ Answered("GET /region-data")
     /\ ~FalsyName(req.input, "region")
     /\ HasCampaigns)
    => LET matching == CampaignsOfRegion(req.input.region)
       IN  /\ Len(resp) = 1
           /\ (resp[1].status = 404) <=> (matching = <<>>)
           /\ matching # <<>> =>
                /\ resp[1].status = 200
                /\ Len(resp[1].body) = Len(matching)
                /\ \A i \in 1..Len(matching) :
                      /\ resp[1].body[i].campaign = IntToStr(matching[i].id)
                      /\ resp[1].body[i].region = req.input.region

\* C5, witness: of two campaigns the first holds "dubai" alone and the second "Dubai":
\* a request for "Dubai" gets the row of the second and no other
C5_Witness ==
    /\ Answered("GET /region-data")
    /\ Has(req.input, "region")
    /\ req.input.region = "Dubai"
    /\ HasCampaigns
    /\ Len(Campaigns) = 2
    /\ Has(Campaigns[1], "regional_performance")
    /\ Campaigns[1].regional_performance = <<RegionalPerformance("dubai")>>
    /\ Campaigns[2].id = 2
    /\ resp[1].status = 200
    /\ Len(resp[1].body) = 1
    /\ resp[1].body[1].campaign = <<"2">>

(***************************************************************************)
(* C6 as stated: every row of a 200 response of GET /region-data holds     *)
(* exactly 13 fields.                                                      *)
(***************************************************************************)
C6_ThirteenFields ==
    (Answered("GET /region-data") /\ resp[1].status = 200)
    => \A i \in 1..Len(resp[1].body) :
          Cardinality(DOMAIN resp[1].body[i]) = 13

\* the first entry of the campaign for the region
MatchedEntry(campaign, region) ==
    LET rps == campaign.regional_performance
        j == CHOOSE k \in 1..Len(rps) :
                /\ Has(rps[k], "region") /\ rps[k].region = region
                /\ \A m \in 1..(k - 1) :
                      ~(Has(rps[m], "region") /\ rps[m].region = region)
    IN  rps[j]

(***************************************************************************)
(* C6 amended: a row of a 200 response of GET /region-data holds           *)
(* `campaign`, `name` when the campaign defines it, and each of the 12     *)
(* regional fields (region, country, impressions, clicks, conversions,     *)
(* spend, revenue, ctr, conversion_rate, cpc, cpa, roas) that the matched  *)
(* entry defines, and nothing else: exactly 14 fields when the campaign    *)
(* and the entry define them all.                                          *)
(***************************************************************************)
C6_FourteenFields ==
    (/\ Answered("GET /region-data")
     /\ resp[1].status = 200
     /\ HasCampaigns)
    => LET matching == CampaignsOfRegion(req.input.region)
       IN  \A i \in 1..Len(resp[1].body) :
              LET row == resp[1].body[i]
                  entry == MatchedEntry(matching[i], req.input.region)
              IN  /\ DOMAIN row = {"campaign"}
                                  \cup ({"name"} \cap DOMAIN matching[i])
                                  \cup (RegionalFields \cap DOMAIN entry)
                  /\ (Has(matching[i], "name")
                      /\ RegionalFields \subseteq DOMAIN entry)
                     => Cardinality(DOMAIN row) = 14

\* C6, witness: a row made from an entry that defines all twelve regional fields
C6_Witness ==
    /\ Answered("GET /region-data")
    /\ resp[1].status = 200
    /\ HasCampaigns
    /\ Len(resp[1].body) = 2
    /\ Cardinality(DOMAIN resp[1].body[1]) = 14
    /\ RegionalFields \subseteq DOMAIN resp[1].body[1]
    /\ resp[1].body[2].region = req.input.region

(***************************************************************************)
(* Vocabulary of the credential routes.                                    *)
(***************************************************************************)
SimpleRoute == "GET /simple-protected-data"

EncryptedRoute == "GET /encrypted-protected-data"

CredentialRoute == req.route \in {SimpleRoute, EncryptedRoute}

\* the users file the route reads
UsersFileOf(route) ==
    IF route = SimpleRoute THEN files.users ELSE files.encryptedUsers

HasUsers == UsersFileOf(req.route).parses /\ Has(UsersFileOf(req.route).doc, "users")

UsersRead == UsersFileOf(req.route).doc.users

CredentialsSupplied ==
    /\ Has(req.input, "username") /\ req.input.username # ""
    /\ Has(req.input, "password") /\ req.input.password # <<>>

UserKnown == \E i \in 1..Len(UsersRead) : UsersRead[i].username = req.input.username

\* the first user record with the username
TheUser ==
    UsersRead[CHOOSE i \in 1..Len(UsersRead) :
                /\ UsersRead[i].username = req.input.username
                /\ \A j \in 1..(i - 1) :
                      UsersRead[j].username # req.input.username]

\* the password check of the route
PasswordPasses ==
    IF req.route = SimpleRoute
    THEN TheUser.password = req.input.password
    ELSE simpleDecrypt(TheUser.password) = simpleDecrypt(req.input.password)

Authenticated == CredentialsSupplied /\ HasUsers /\ UserKnown /\ PasswordPasses

(***************************************************************************)
(* C1: on both credential routes the response carries the campaigns        *)
(* document (a `data` field) only if the username is in the route's users  *)
(* document, the password check against the stored password of that user   *)
(* passes and the role of that user is exactly 'admin'.  With a correct    *)
(* password, role 'user' gets 403 with the user summary and no data; any   *)
(* other role gets 403 with neither data nor user summary.                 *)
(***************************************************************************)
C1_DataOnlyForAdmin ==
    (CredentialRoute /\ Len(resp) >= 1)
    => /\ \A k \in 1..Len(resp) :
            Has(resp[k].body, "data")
            => Authenticated /\ TheUser.role = "admin"
       /\ (Authenticated /\ TheUser.role = "user")
          => /\ Len(resp) = 1
             /\ resp[1].status = 403
             /\ Has(resp[1].body, "user")
             /\ resp[1].body.user = [id |-> TheUser.id,
                                     username |-> TheUser.username,
                                     email |-> TheUser.email,
                                     role |-> TheUser.role]
             /\ ~Has(resp[1].body, "data")
       /\ (Authenticated /\ TheUser.role \notin {"admin", "user"})
          => /\ Len(resp) = 1
             /\ resp[1].status = 403
             /\ ~Has(resp[1].body, "data")
             /\ ~Has(resp[1].body, "user")

\* C1, witness: the role 'Admin' with the right password, on the obfuscated route, is
\* refused without data and without user summary
C1_Witness ==
    /\ req.route = EncryptedRoute
    /\ Len(resp) = 1
    /\ Authenticated
    /\ TheUser.role = "Admin"
    /\ resp[1].status = 403
    /\ DOMAIN resp[1].body = {"error", "message"}

(***************************************************************************)
(* C7: on both credential routes, over a users document: a missing or      *)
(* empty username or password gives 400; otherwise a username found in no  *)
(* user record gives 404 'User not found'; otherwise a failed password     *)
(* check gives 401 'Invalid credentials'; 403 and 200 are returned only    *)
(* when the username is known and the password check passed.               *)
(***************************************************************************)
C7_FailureOrder ==
    (CredentialRoute /\ Len(resp) >= 1)
    => /\ ~CredentialsSupplied
          => Len(resp) = 1 /\ resp[1].status = 400
       /\ (CredentialsSupplied /\ HasUsers /\ ~UserKnown)
          => /\ Len(resp) = 1
             /\ resp[1].status = 404
             /\ resp[1].body.error = "User not found"
       /\ (CredentialsSupplied /\ HasUsers /\ UserKnown /\ ~PasswordPasses)
          => /\ Len(resp) = 1
             /\ resp[1].status = 401
             /\ resp[1].body.error = "Invalid credentials"
       /\ (\E k \in 1..Len(resp) : resp[k].status \in {200, 403})
          => Authenticated

\* C7, witness: an admin's record with a wrong password on the obfuscated route: 401,
\* whatever the role
C7_Witness ==
    /\ req.route = EncryptedRoute
    /\ CredentialsSupplied /\ HasUsers /\ UserKnown
    /\ TheUser.role = "admin"
    /\ TheUser.password = <<"h">>
    /\ req.input.password = <<"a">>
    /\ resp = <<Response(401, [error |-> "Invalid credentials",
                               message |-> "User not found"])>>

\* a source document of the request fails to load
LoadFails ==
    \/ ~HasUsers
    \/ Authenticated /\ TheUser.role = "admin" /\ ~files.campaigns.parses

(***************************************************************************)
(* C8: on both credential routes, when credentials are supplied and a      *)
(* source document fails to load (the users file does not parse or holds   *)
(* no users collection; or, for an authenticated admin, the campaigns file *)
(* does not parse), exactly one response is sent: 500 with the generic     *)
(* body and nothing else.                                                  *)
(***************************************************************************)
C8_GenericFailure ==
    (CredentialRoute /\ CredentialsSupplied /\ LoadFails)
    => resp = <<Response(500,
                         [error |-> "Internal server error",
                          message |-> "An error occurred while processing your request"])>>

\* C8, witness: the campaigns file fails after an admin has authenticated
C8_Witness ==
    /\ req.route = SimpleRoute
    /\ CredentialsSupplied
    /\ HasUsers
    /\ Authenticated
    /\ TheUser.role = "admin"
    /\ ~files.campaigns.parses
    /\ Len(resp) = 1
    /\ resp[1].status = 500

\* codecs to run the obfuscated handler with
IdentityCodec == [c \in CodecChars |-> c]

\* the codecs over the characters of the passwords: every table, one to
\* one or not, and the codec of the server
Codecs ==
    {simpleDecryptCodec, IdentityCodec}
    \cup {[c \in CodecChars |-> IF c \in PasswordChars THEN f[c] ELSE c] :
            f \in [PasswordChars -> PasswordChars]}

WithoutExample(responses) ==
    [k \in 1..Len(responses) |->
        [status |-> responses[k].status,
         body |-> [f \in DOMAIN responses[k].body \ {"example"} |->
                      responses[k].body[f]]]]

(***************************************************************************)
(* C10: the obfuscated route is the plaintext route with the password test *)
(* replaced by decode(stored) = decode(supplied).  With the same users     *)
(* document in both files and the identity as codec, the two handlers send *)
(* the same status and body for every username and password, apart from   *)
(* the example text of the 400 body; and for every codec the obfuscated    *)
(* handler fails the password check (401) exactly when the decoded stored  *)
(* password differs from the decoded supplied password, so the stored      *)
(* password supplied verbatim always passes.                               *)
(***************************************************************************)
C10_ObfuscatedRefinesPlain ==
    (CredentialRoute /\ Len(resp) >= 1)
    => /\ (req.route = SimpleRoute /\ files.users = files.encryptedUsers)
          => WithoutExample(resp)
             = WithoutExample(
                   encryptedProtectedDataWith(IdentityCodec, req.input).sent)
       /\ (req.route = EncryptedRoute /\ CredentialsSupplied /\ HasUsers
           /\ UserKnown)
          => /\ (resp[1].status = 401)
                <=> (simpleDecrypt(TheUser.password)
                     # simpleDecrypt(req.input.password))
             /\ \A codec \in Codecs :
                   LET sent == encryptedProtectedDataWith(codec, req.input).sent
                   IN  /\ (sent[1].status = 401)
                          <=> (applyCodec(codec, TheUser.password)
                               # applyCodec(codec, req.input.password))
                       /\ req.input.password = TheUser.password
                          => sent[1].status # 401

\* C10, witness: the stored password supplied verbatim to the obfuscated route, for a
\* user whose role is 'user': the check passes and the role decides
C10_Witness ==
    /\ req.route = EncryptedRoute
    /\ CredentialsSupplied /\ HasUsers /\ UserKnown
    /\ files.users = files.encryptedUsers
    /\ req.input.password = TheUser.password
    /\ TheUser.password = <<"a", "h">>
    /\ TheUser.role = "user"
    /\ Len(UsersRead) = 2
    /\ resp[1].status = 403

\* the response of the current exchange agrees with the files as they are
ReflectsFiles ==
    /\ Answered("GET /full-data")
       => IF files.campaigns.exists
          THEN resp[1].status = 200 /\ resp[1].body = files.campaigns.doc
          ELSE resp[1].status = 404
    /\ (/\ Answered("GET /campaign-data")
        /\ Has(req.input, "campaignId")
        /\ IsDecimal(req.input.campaignId)
        /\ HasCampaigns)
       => /\ (resp[1].status = 200)
             <=> \E i \in 1..Len(Campaigns) :
                    Campaigns[i].id = DecimalValue(req.input.campaignId)
          /\ resp[1].status = 200
             => \E i \in 1..Len(Campaigns) : Campaigns[i] = resp[1].body
    /\ (/\ Answered("GET /region-data")
        /\ ~FalsyName(req.input, "region")
        /\ HasCampaigns)
       => (resp[1].status = 200)
          <=> \E i \in 1..Len(Campaigns) :
                 HasRegion(Campaigns[i], req.input.region)
    /\ (/\ Answered("POST /creative-data")
        /\ req.input.kind = "array"
        /\ HasCampaigns)
       => /\ resp[1].status = 200
             => \A k \in 1..Len(resp[1].body.data) :
                   resp[1].body.data[k].creative_id \in CreativeIdsInDocument
          /\ (\E i \in 1..Len(req.input.creativeIds) :
                 /\ req.input.creativeIds[i].type = "number"
                 /\ req.input.creativeIds[i].n \in CreativeIdsInDocument)
             => resp[1].status = 200
    /\ (CredentialRoute /\ Len(resp) >= 1 /\ CredentialsSupplied)
       => /\ ~HasUsers => resp[1].status = 500
          /\ HasUsers => ((resp[1].status = 404) <=> ~UserKnown)
          /\ (HasUsers /\ UserKnown /\ resp[1].status # 401)
             => IF TheUser.role # "admin" THEN resp[1].status = 403
                ELSE IF files.campaigns.parses
                THEN resp[1].status = 200
                     /\ resp[1].body.data = files.campaigns.doc
                ELSE resp[1].status = 500

\* a step that opens an exchange: the server handles a request
RequestStep == req = NoRequest /\ req' # NoRequest

(***************************************************************************)
(* C9: over any sequence of requests interleaved with external writes to   *)
(* the three files, no request changes a file, and the response of every   *)
(* request that reads a file is computed from what the file holds at the   *)
(* time of that request: an external write shows in the very next request. *)
(***************************************************************************)
C9_ReadsFreshWritesNothing ==
    /\ [][RequestStep => (files' = files /\ Len(resp') = 1 /\ ReflectsFiles')]_vars
    /\ [][req' # req => files' = files]_vars

\* C9, witness: the campaign with id 0 exists only in a document written after the
\* server started, and a request for it finds it
C9_Witness ==
    /\ Answered("GET /campaign-data")
    /\ req.input = [campaignId |-> <<"0">>]
    /\ files.campaigns # DeployedCampaigns
    /\ HasCampaigns
    /\ Campaigns[1].id = 0
    /\ resp[1].status = 200
    /\ resp[1].body.id = 0

====
